---- MODULE Spec2Model ----
(***************************************************************************)
(* Verification model of uniqseq: the streaming sequence deduplicator      *)
(* (src/uniqseq/deduplicator.py, StreamingDeduplicator) and the filtering  *)
(* front end of src/uniqseq/uniqseq.py (UniqSeq).                          *)
(*                                                                         *)
(* An engine instance is one record-valued variable whose fields are the   *)
(* attributes of the Python object.  Python dicts are insertion ordered,   *)
(* so a dict is a sequence of entries; a set is a set.  A Blake2b digest   *)
(* is represented by the data that is digested (the digest is taken to be  *)
(* collision free).  Every buffered line carries its 1-based input index   *)
(* in the field num; StreamingDeduplicator never reads it.                 *)
(***************************************************************************)
EXTENDS Integers, Sequences, FiniteSets, TLC

\* ---------------------------------------------------------------- bounds
MaxLines == 6      \* longest input fed to an engine
NumSymbols == 3    \* number of distinct line contents
MaxWindow == 3     \* largest window_size tried
HistoryCap == 3    \* the bounded max_history tried besides unlimited
SeqCap == 2        \* the larger bounded max_unique_sequences tried
MaxMatches == 3    \* number of distinct match objects offered to a manager
CandCap == 2       \* the larger bounded max_candidates tried
LongLines == 10    \* number of input records of a run over two symbols

\* Python's None (max_history=None means unlimited)
None == -1

DEFAULT_MAX_UNIQUE_SEQUENCES == 10000

\* the line contents: one-character strings
Lines == {<<c>> : c \in 1..NumSymbols}

\* ------------------------------------------------------------- utilities
Max(a, b) == IF a >= b THEN a ELSE b
Min(a, b) == IF a <= b THEN a ELSE b

\* seq[-n:] for 0 <= n
LastN(seq, n) == SubSeq(seq, Len(seq) - Min(n, Len(seq)) + 1, Len(seq))
\* seq[n:] (drop the first n)
DropN(seq, n) == SubSeq(seq, Min(n, Len(seq)) + 1, Len(seq))
\* seq[:n]
FirstN(seq, n) == SubSeq(seq, 1, Min(n, Len(seq)))

RECURSIVE SumLens(_)
SumLens(d) == IF d = <<>> THEN 0 ELSE Len(Head(d).seqs) + SumLens(Tail(d))

\* list.remove(v): drop the first element equal to v
ListRemove(seq, v) ==
    LET i == CHOOSE k \in 1..Len(seq) : seq[k] = v /\ \A j \in 1..(k - 1) : seq[j] # v
    IN  SubSeq(seq, 1, i - 1) \o SubSeq(seq, i + 1, Len(seq))

\* -------------------------------------------------------------- hashing
\* hash_line without the slice: the whole line is digested whatever
\* skip_chars is.
hash_line_whole(line, skip_chars) == [blake2b8 |-> line]

\* hash_line: digest of line[skip_chars:]
hash_line(line, skip_chars) ==
    [blake2b8 |-> IF skip_chars > 0 THEN SubSeq(line, skip_chars + 1, Len(line)) ELSE line]

\* hash_window: digest of str(sequence_length) + ":" + "".join(window_hashes)
hash_window(sequence_length, window_hashes) ==
    [len |-> sequence_length, hashes |-> window_hashes]

\* ------------------------------------------------------- PositionalFIFO
PositionalFIFO(maxsize) ==
    [maxsize |-> maxsize,
     position_to_key |-> <<>>,
     key_to_positions |-> <<>>,
     next_position |-> 0,
     oldest_position |-> 0]

\* The eviction without its update of key_to_positions: the evicted position
\* stays in the reverse index.
FIFO_evict_keeping_index(h) ==
    [h EXCEPT !.position_to_key =
                  [p \in (DOMAIN h.position_to_key) \ {h.oldest_position} |-> h.position_to_key[p]],
              !.oldest_position = @ + 1]

FIFO_evict(h) ==
    LET old_key == h.position_to_key[h.oldest_position]
        rest == ListRemove(h.key_to_positions[old_key], h.oldest_position)
        k2p == IF rest = <<>>
               THEN [k \in (DOMAIN h.key_to_positions) \ {old_key} |-> h.key_to_positions[k]]
               ELSE [h.key_to_positions EXCEPT ![old_key] = rest]
    IN  [h EXCEPT !.key_to_positions = k2p,
                  !.position_to_key =
                      [p \in (DOMAIN h.position_to_key) \ {h.oldest_position} |-> h.position_to_key[p]],
                  !.oldest_position = @ + 1]

FIFO_append(h0, key) ==
    LET position == h0.next_position
        h == IF h0.maxsize # None /\ Cardinality(DOMAIN h0.position_to_key) >= h0.maxsize
             THEN FIFO_evict(h0) ELSE h0
        old == IF key \in DOMAIN h.key_to_positions THEN h.key_to_positions[key] ELSE <<>>
    IN  [h EXCEPT !.position_to_key = (position :> key) @@ h.position_to_key,
                  !.key_to_positions =
                      (key :> Append(old, position)) @@
                      [k \in (DOMAIN h.key_to_positions) \ {key} |-> h.key_to_positions[k]],
                  !.next_position = @ + 1]

find_all_positions(h, key) ==
    IF key \in DOMAIN h.key_to_positions THEN h.key_to_positions[key] ELSE <<>>

\* get_key returns None for a position that is not (or no longer) in history
has_key(h, position) == position \in DOMAIN h.position_to_key
get_key(h, position) == h.position_to_key[position]

get_next_position(position) == position + 1


\* ------------------------------------------------ StreamingDeduplicator
\* The object after __init__.  output is the stream handed to process_line
\* and flush: the lines written so far.
StreamingDeduplicator(window_size, max_history, max_unique_sequences, skip_chars) ==
    [window_size |-> window_size,
     max_history |-> max_history,
     max_unique_sequences |-> max_unique_sequences,
     skip_chars |-> skip_chars,
     window_hash_history |-> PositionalFIFO(max_history),
     window_hash_delay_buffer |-> <<>>,
     unique_sequences |-> <<>>,
     new_sequence_candidates |-> <<>>,
     potential_uniq_matches |-> <<>>,
     line_buffer |-> <<>>,
     hash_buffer |-> <<>>,
     line_num_input |-> 0,
     line_num_output |-> 0,
     lines_skipped |-> 0,
     output |-> <<>>]

\* index of start_window_hash in the OrderedDict unique_sequences, 0 if absent
us_index(us, key) ==
    IF \E i \in 1..Len(us) : us[i].key = key
    THEN CHOOSE i \in 1..Len(us) : us[i].key = key
    ELSE 0

\* index of full_sequence_hash in an inner dict, 0 if absent
seq_index(seqs, full_hash) ==
    IF \E j \in 1..Len(seqs) : seqs[j].full_sequence_hash = full_hash
    THEN CHOOSE j \in 1..Len(seqs) : seqs[j].full_sequence_hash = full_hash
    ELSE 0

\* unique_sequences[start][full].repeat_count += 1 (no-op when the object has
\* left the dict: nothing observes it any more)
inc_repeat_count(us, start, full) ==
    LET i == us_index(us, start) IN
    IF i = 0 THEN us
    ELSE LET j == seq_index(us[i].seqs, full) IN
         IF j = 0 THEN us
         ELSE [us EXCEPT ![i].seqs[j].repeat_count = @ + 1]

\* unique_sequences[start][full] = new_seq (setdefault of the inner dict first)
us_store(us, new_seq) ==
    LET i == us_index(us, new_seq.start_window_hash) IN
    IF i = 0 THEN Append(us, [key |-> new_seq.start_window_hash, seqs |-> <<new_seq>>])
    ELSE LET j == seq_index(us[i].seqs, new_seq.full_sequence_hash) IN
         IF j = 0 THEN [us EXCEPT ![i].seqs = Append(@, new_seq)]
         ELSE [us EXCEPT ![i].seqs[j] = new_seq]

\* PotentialUniqSeqMatch.get_lines_matched
get_lines_matched(match) == match.window_size + (match.next_window_index - 1)

\* PotentialUniqSeqMatch.get_buffer_depth
get_buffer_depth(match, line_num_output) ==
    (match.current_start_line - line_num_output) + get_lines_matched(match)

\* _write_line followed by line_num_output += 1, for the first n buffered lines
\* fault variant of emit_front: the lines are taken with pop() from the
\* right end of the buffer instead of popleft()
emit_front_pop(self, n) ==
    LET k == Min(n, Len(self.line_buffer))
        taken == LastN(self.line_buffer, k)
    IN  [self EXCEPT !.output = @ \o [i \in 1..k |-> taken[k + 1 - i]],
                     !.line_num_output = @ + k,
                     !.line_buffer = FirstN(@, Len(@) - k),
                     !.hash_buffer = FirstN(@, Len(@) - k)]

emit_front(self, n) ==
    [self EXCEPT !.output = @ \o FirstN(self.line_buffer, n),
                 !.line_num_output = @ + Min(n, Len(self.line_buffer)),
                 !.line_buffer = DropN(@, n),
                 !.hash_buffer = DropN(@, n)]

\* _handle_duplicate counting lines_to_skip as skipped whether or not that
\* many records were in the buffer.
_handle_duplicate_counting_all(self, match) ==
    LET lines_to_skip == get_lines_matched(match)
        popped == Min(Max(lines_to_skip, 0), Len(self.line_buffer))
    IN  [self EXCEPT !.unique_sequences =
                         inc_repeat_count(@, match.candidate_seq.start_window_hash,
                                          match.candidate_seq.full_sequence_hash),
                     !.line_buffer = DropN(@, popped),
                     !.hash_buffer = DropN(@, popped),
                     !.lines_skipped = @ + Max(lines_to_skip, 0),
                     !.new_sequence_candidates = <<>>,
                     !.potential_uniq_matches = <<>>]

_handle_duplicate(self, match) ==
    LET lines_to_skip == get_lines_matched(match)
        popped == Min(Max(lines_to_skip, 0), Len(self.line_buffer))
    IN  [self EXCEPT !.unique_sequences =
                         inc_repeat_count(@, match.candidate_seq.start_window_hash,
                                          match.candidate_seq.full_sequence_hash),
                     !.line_buffer = DropN(@, popped),
                     !.hash_buffer = DropN(@, popped),
                     !.lines_skipped = @ + popped,
                     !.new_sequence_candidates = <<>>,
                     !.potential_uniq_matches = <<>>]

\* the for loop of _update_potential_uniq_matches over list(items()), from
\* entry i on; ms is updated in place, the loop ends at the first confirmed
\* duplicate (break)
RECURSIVE upm_loop(_, _, _, _)
upm_loop(ms, i, current_window_hash, to_remove) ==
    IF i > Len(ms) THEN [matches |-> ms, to_remove |-> to_remove, confirmed |-> <<>>]
    ELSE LET m == ms[i] IN
         IF m.next_window_index >= Len(m.candidate_seq.window_hashes)
         THEN upm_loop(ms, i + 1, current_window_hash, to_remove \cup {m.id})
         ELSE IF current_window_hash # m.candidate_seq.window_hashes[m.next_window_index + 1]
         THEN upm_loop(ms, i + 1, current_window_hash, to_remove \cup {m.id})
         ELSE LET m2 == [m EXCEPT !.next_window_index = @ + 1]
                  ms2 == [ms EXCEPT ![i] = m2]
              IN  IF m2.next_window_index >= Len(m2.candidate_seq.window_hashes)
                  THEN [matches |-> ms2, to_remove |-> to_remove \cup {m.id},
                        confirmed |-> <<m2>>]
                  ELSE upm_loop(ms2, i + 1, current_window_hash, to_remove)

_update_potential_uniq_matches(self, current_window_hash) ==
    LET r == upm_loop(self.potential_uniq_matches, 1, current_window_hash, {})
        kept == SelectSeq(r.matches, LAMBDA m : m.id \notin r.to_remove)
        s1 == [self EXCEPT !.potential_uniq_matches = kept]
    IN  IF r.confirmed # <<>> THEN _handle_duplicate(s1, r.confirmed[1]) ELSE s1

\* one candidate of _update_new_sequence_candidates
update_candidate(h, candidate, current_window_hash) ==
    LET still_matching ==
            {get_next_position(p) : p \in
                {q \in candidate.matching_history_positions :
                    /\ has_key(h, get_next_position(q))
                    /\ get_key(h, get_next_position(q)) = current_window_hash}}
    IN  IF still_matching # {}
        THEN [candidate EXCEPT !.matching_history_positions = still_matching,
                               !.lines_matched = @ + 1,
                               !.buffer_depth = @ + 1,
                               !.window_hashes = Append(@, current_window_hash)]
        ELSE [candidate EXCEPT !.matching_history_positions = {}]

_update_new_sequence_candidates(self, current_window_hash) ==
    [self EXCEPT !.new_sequence_candidates =
        [i \in 1..Len(@) |-> update_candidate(self.window_hash_history, @[i],
                                              current_window_hash)]]

\* fault variant of _skip_buffer_lines: the edge case counts the lines it
\* was asked to skip instead of the lines it removed
_skip_buffer_lines_requested(self, count) ==
    LET n == Len(self.line_buffer) IN
    IF count <= 0 \/ count >= n
    THEN [self EXCEPT !.line_buffer = FirstN(@, 1),
                      !.hash_buffer = FirstN(@, 1),
                      !.lines_skipped = @ + Max(count, 0)]
    ELSE [self EXCEPT !.line_buffer = FirstN(@, n - count - 1) \o LastN(@, 1),
                      !.hash_buffer = FirstN(@, n - count - 1) \o LastN(@, 1),
                      !.lines_skipped = @ + count]

_skip_buffer_lines(self, count) ==
    LET n == Len(self.line_buffer) IN
    IF count <= 0 \/ count >= n
    THEN \* while len(line_buffer) > 1: pop()
         [self EXCEPT !.line_buffer = FirstN(@, 1),
                      !.hash_buffer = FirstN(@, 1),
                      !.lines_skipped = @ + Max(n - 1, 0)]
    ELSE \* del list[-count - 1 : -1]
         [self EXCEPT !.line_buffer = FirstN(@, n - count - 1) \o LastN(@, 1),
                      !.hash_buffer = FirstN(@, n - count - 1) \o LastN(@, 1),
                      !.lines_skipped = @ + count]

\* the UniqSeq built from a candidate
UniqSeqOf(candidate) ==
    [start_window_hash |-> candidate.start_window_hash,
     full_sequence_hash |-> hash_window(candidate.lines_matched, candidate.window_hashes),
     start_line |-> candidate.current_start_line - candidate.lines_matched,
     sequence_length |-> candidate.lines_matched,
     repeat_count |-> 1,
     window_hashes |-> candidate.window_hashes]

_finalize_new_sequence(self, candidate) ==
    LET new_seq == UniqSeqOf(candidate)
        i == us_index(self.unique_sequences, candidate.start_window_hash)
        exists == i # 0 /\ seq_index(self.unique_sequences[i].seqs,
                                     new_seq.full_sequence_hash) # 0
    IN  IF exists
        THEN LET s1 == [self EXCEPT !.unique_sequences =
                            inc_repeat_count(@, new_seq.start_window_hash,
                                             new_seq.full_sequence_hash)]
                 s2 == _skip_buffer_lines(s1, candidate.lines_matched)
             IN  [s2 EXCEPT !.new_sequence_candidates = <<>>,
                            !.potential_uniq_matches = <<>>]
        ELSE LET s1 == [self EXCEPT !.unique_sequences = us_store(@, new_seq)]
                 s2 == _skip_buffer_lines(s1, candidate.lines_matched)
                 s3 == [s2 EXCEPT !.new_sequence_candidates = <<>>,
                                  !.potential_uniq_matches = <<>>]
             IN  \* popitem(last=False)
                 IF SumLens(s3.unique_sequences) > s3.max_unique_sequences
                 THEN [s3 EXCEPT !.unique_sequences = Tail(@)]
                 ELSE s3

_check_for_finalization(self) ==
    LET cs == self.new_sequence_candidates
        exhausted == {i \in 1..Len(cs) : cs[i].matching_history_positions = {}}
    IN  IF exhausted = {} THEN self
        ELSE _finalize_new_sequence(self,
                 cs[CHOOSE i \in exhausted : \A j \in exhausted : i <= j])


\* potential_uniq_matches[match.id] = match: a dict assignment keeps the place
\* of an existing key
matches_store(ms, match) ==
    IF \E i \in 1..Len(ms) : ms[i].id = match.id
    THEN [i \in 1..Len(ms) |-> IF ms[i].id = match.id THEN match ELSE ms[i]]
    ELSE Append(ms, match)

\* Phase 3a, the loop over unique_sequences[current_window_hash].values()
RECURSIVE start_matches(_, _, _, _)
start_matches(ms, seqs, line_num_output, window_size) ==
    IF seqs = <<>> THEN ms
    ELSE LET seq == Head(seqs)
             match == [id |-> [out |-> line_num_output, start |-> seq.start_line],
                       candidate_seq |-> [start_window_hash |-> seq.start_window_hash,
                                          full_sequence_hash |-> seq.full_sequence_hash,
                                          start_line |-> seq.start_line,
                                          window_hashes |-> seq.window_hashes],
                       current_start_line |-> line_num_output,
                       next_window_index |-> 1,
                       window_size |-> window_size]
         IN  start_matches(matches_store(ms, match), Tail(seqs), line_num_output, window_size)

\* the history positions that pass the overlap filter of Phase 3b
non_overlapping(self, current_window_hash) ==
    LET history_positions == find_all_positions(self.window_hash_history, current_window_hash)
        current_window_start == self.line_num_input - self.window_size + 1
    IN  SelectSeq(history_positions, LAMBDA pos : pos + self.window_size <= current_window_start)

_check_for_new_uniq_matches(self, current_window_hash) ==
    LET i == us_index(self.unique_sequences, current_window_hash)
        s1 == IF i = 0 THEN self
              ELSE [self EXCEPT !.potential_uniq_matches =
                        start_matches(@, self.unique_sequences[i].seqs,
                                      self.line_num_output, self.window_size)]
        nov == non_overlapping(s1, current_window_hash)
        candidate_id == s1.line_num_input
    IN  IF nov # <<>> /\ \A k \in 1..Len(s1.new_sequence_candidates) :
                               s1.new_sequence_candidates[k].id # candidate_id
        THEN [s1 EXCEPT !.new_sequence_candidates = Append(@,
                 [id |-> candidate_id,
                  current_start_line |-> s1.line_num_output,
                  input_start_line |-> s1.line_num_input - s1.window_size,
                  lines_matched |-> s1.window_size,
                  window_hashes |-> <<current_window_hash>>,
                  start_window_hash |-> current_window_hash,
                  buffer_depth |-> Len(s1.line_buffer) - 1,
                  matching_history_positions |-> {nov[k] : k \in 1..Len(nov)}])]
        ELSE s1

\* Phase 4: the deque(maxlen=1) delay buffer hands its item to history
add_to_history(self, current_window_hash) ==
    LET s1 == IF Len(self.window_hash_delay_buffer) = 1
              THEN [self EXCEPT !.window_hash_history =
                        FIFO_append(@, self.window_hash_delay_buffer[1])]
              ELSE self
    IN  [s1 EXCEPT !.window_hash_delay_buffer = <<current_window_hash>>]

RECURSIVE MaxOver(_, _)
MaxOver(depths, floor) ==
    IF depths = <<>> THEN floor ELSE MaxOver(Tail(depths), Max(floor, Head(depths)))

min_required_depth(self) ==
    LET cs == self.new_sequence_candidates
        ms == self.potential_uniq_matches
        d1 == MaxOver([i \in 1..Len(cs) |-> cs[i].buffer_depth], self.window_size)
    IN  MaxOver([i \in 1..Len(ms) |-> get_buffer_depth(ms[i], self.line_num_output)], d1)

\* _emit_available_lines with the loop test len(line_buffer) > depth + 1: one
\* record more than required is left in the buffer.
_emit_available_lines_one_short(self) ==
    LET depth == min_required_depth(self) IN
    IF Len(self.line_buffer) > depth + 1
    THEN emit_front(self, Len(self.line_buffer) - depth - 1)
    ELSE self

_emit_available_lines(self) ==
    LET depth == min_required_depth(self) IN
    IF Len(self.line_buffer) > depth
    THEN emit_front(self, Len(self.line_buffer) - depth)
    ELSE self

process_line(self, line) ==
    LET num == self.line_num_input + 1
        s0 == [self EXCEPT !.line_num_input = num,
                           !.line_buffer = Append(@, [line |-> line, num |-> num]),
                           !.hash_buffer = Append(@, hash_line(line, self.skip_chars))]
    IN  IF Len(s0.hash_buffer) < s0.window_size THEN s0
        ELSE LET current_window_hash ==
                     hash_window(s0.window_size, LastN(s0.hash_buffer, s0.window_size))
                 s1 == _update_potential_uniq_matches(s0, current_window_hash)
                 s2 == _update_new_sequence_candidates(s1, current_window_hash)
                 s3 == _check_for_finalization(s2)
                 s4 == _check_for_new_uniq_matches(s3, current_window_hash)
                 s5 == add_to_history(s4, current_window_hash)
             IN  _emit_available_lines(s5)

_record_sequence_pattern(self, candidate) ==
    LET new_seq == UniqSeqOf(candidate)
        i == us_index(self.unique_sequences, candidate.start_window_hash)
    IN  IF i # 0 /\ seq_index(self.unique_sequences[i].seqs, new_seq.full_sequence_hash) # 0
        THEN [self EXCEPT !.unique_sequences =
                 inc_repeat_count(@, new_seq.start_window_hash, new_seq.full_sequence_hash)]
        ELSE [self EXCEPT !.unique_sequences = us_store(@, new_seq)]

\* the should_skip decision of flush for one candidate
should_skip(self, candidate) ==
    /\ self.line_num_input - candidate.input_start_line >= self.window_size
    /\ \E hist_pos \in candidate.matching_history_positions :
           self.line_num_input - (hist_pos + self.window_size) >= self.window_size

\* the loop of flush over list(new_sequence_candidates.values())
RECURSIVE flush_candidates(_, _)
flush_candidates(self, cs) ==
    IF cs = <<>> THEN self
    ELSE LET candidate == Head(cs) IN
         IF should_skip(self, candidate)
         THEN LET popped == Min(candidate.lines_matched, Len(self.line_buffer))
                  s1 == [self EXCEPT !.line_buffer = FirstN(@, Len(@) - popped),
                                     !.hash_buffer = FirstN(@, Len(@) - popped),
                                     !.lines_skipped = @ + popped]
              IN  flush_candidates(_record_sequence_pattern(s1, candidate), Tail(cs))
         ELSE flush_candidates(self, Tail(cs))

flush(self) ==
    LET s1 == flush_candidates(self, self.new_sequence_candidates)
        s2 == [s1 EXCEPT !.new_sequence_candidates = <<>>]
    IN  emit_front(s2, Len(s2.line_buffer))

\* ---------------------------------------------------------------- UniqSeq
\* src/uniqseq/uniqseq.py.  Its PositionalFIFO stores a HistoryEntry
\* (window_hash, first_output_line) per position.
U_PositionalFIFO(maxsize) ==
    [maxsize |-> maxsize,
     position_to_entry |-> <<>>,
     key_to_positions |-> <<>>,
     next_position |-> 0,
     oldest_position |-> 0]

U_evict(h) ==
    LET old_key == h.position_to_entry[h.oldest_position].window_hash
        rest == ListRemove(h.key_to_positions[old_key], h.oldest_position)
        k2p == IF rest = <<>>
               THEN [k \in (DOMAIN h.key_to_positions) \ {old_key} |-> h.key_to_positions[k]]
               ELSE [h.key_to_positions EXCEPT ![old_key] = rest]
    IN  [h EXCEPT !.key_to_positions = k2p,
                  !.position_to_entry =
                      [p \in (DOMAIN h.position_to_entry) \ {h.oldest_position} |->
                          h.position_to_entry[p]],
                  !.oldest_position = @ + 1]

U_append(h0, key) ==
    LET position == h0.next_position
        h == IF h0.maxsize # None /\ Cardinality(DOMAIN h0.position_to_entry) >= h0.maxsize
             THEN U_evict(h0) ELSE h0
        old == IF key \in DOMAIN h.key_to_positions THEN h.key_to_positions[key] ELSE <<>>
        entry == [window_hash |-> key, first_output_line |-> None]
    IN  [h EXCEPT !.position_to_entry = (position :> entry) @@ h.position_to_entry,
                  !.key_to_positions =
                      (key :> Append(old, position)) @@
                      [k \in (DOMAIN h.key_to_positions) \ {key} |-> h.key_to_positions[k]],
                  !.next_position = @ + 1]

\* float("inf"), the line number of an empty buffer in the merge
Infinity == 1000000

\* The UniqSeq object after __init__ (no preloaded sequences, no
\* hash_transform, no save callback, annotate and explain off).
\* A FilterPattern is [regex, action]; regex is the set of lines on which
\* regex.search succeeds.
UniqSeq(window_size, max_history, max_candidates, filter_patterns, inverse) ==
    [window_size |-> window_size,
     max_history |-> max_history,
     max_candidates |-> max_candidates,
     skip_chars |-> 0,
     hash_transform |-> "None",
     save_sequence_callback |-> "None",
     annotate |-> FALSE,
     filter_patterns |-> filter_patterns,
     inverse |-> inverse,
     window_hash_history |-> U_PositionalFIFO(max_history),
     sequence_records |-> <<>>,
     sequence_candidates |-> <<>>,
     new_sequence_candidates |-> <<>>,
     potential_uniq_matches |-> <<>>,
     line_buffer |-> <<>>,
     filtered_lines |-> <<>>,
     line_num_input |-> 0,
     line_num_input_tracked |-> 0,
     line_num_output |-> 0,
     lines_skipped |-> 0,
     output |-> <<>>]

\* UniqSeq._initialize_preloaded_sequences.  preloaded_sequences is the dict
\* as a sequence of [seq_hash, lines] entries.  An entry shorter than the
\* window is skipped; for the first other entry SequenceRecord(...) is called
\* with keyword arguments (full_sequence_hash, sequence_length, window_hashes)
\* that RecordedSequence.__init__ does not accept, before anything is stored.
_initialize_preloaded_sequences(self, preloaded_sequences) ==
    IF \E i \in 1..Len(preloaded_sequences) :
           Len(preloaded_sequences[i].lines) >= self.window_size
    THEN [self |-> self, raised |-> "TypeError"]
    ELSE [self |-> self, raised |-> "no"]

\* UniqSeq._evaluate_filter: the action of the first pattern that matches,
\* "no_match_allowlist" or "None" when none does
\* fault variant of first_match: the last pattern that matches decides
RECURSIVE last_match(_, _)
last_match(filter_patterns, line) ==
    IF filter_patterns = <<>> THEN "no match"
    ELSE IF line \in filter_patterns[Len(filter_patterns)].regex
    THEN filter_patterns[Len(filter_patterns)].action
    ELSE last_match(SubSeq(filter_patterns, 1, Len(filter_patterns) - 1), line)

RECURSIVE first_match(_, _)
first_match(filter_patterns, line) ==
    IF filter_patterns = <<>> THEN "no match"
    ELSE IF line \in Head(filter_patterns).regex THEN Head(filter_patterns).action
    ELSE first_match(Tail(filter_patterns), line)

_evaluate_filter(self, line) ==
    IF self.filter_patterns = <<>> THEN "None"
    ELSE LET m == first_match(self.filter_patterns, line) IN
         IF m # "no match" THEN m
         ELSE IF \E i \in 1..Len(self.filter_patterns) : self.filter_patterns[i].action = "track"
         THEN "no_match_allowlist"
         ELSE "None"

should_deduplicate(self, line) == _evaluate_filter(self, line) \in {"track", "None"}

\* the floor computed at the top of _emit_merged_lines
U_min_required_depth(self) ==
    LET cs == self.new_sequence_candidates
        ms == self.potential_uniq_matches
        d1 == MaxOver([i \in 1..Len(cs) |-> cs[i].buffer_depth], self.window_size)
    IN  MaxOver([i \in 1..Len(ms) |-> get_buffer_depth(ms[i], self.line_num_output)], d1)

\* entry.first_output_line = line_num_output, first write wins
set_first_output_line(h, hist_pos, line_num_output) ==
    IF hist_pos \in DOMAIN h.position_to_entry
       /\ h.position_to_entry[hist_pos].first_output_line = None
    THEN [h EXCEPT !.position_to_entry[hist_pos].first_output_line = line_num_output]
    ELSE h

\* pop the front tracked line: skipped in inverse mode, written otherwise
U_emit_tracked(self) ==
    LET buffered_line == self.line_buffer[1] IN
    IF self.inverse
    THEN [self EXCEPT !.line_buffer = Tail(@), !.lines_skipped = @ + 1]
    ELSE [self EXCEPT !.line_buffer = Tail(@),
                      !.output = Append(@, buffered_line),
                      !.line_num_output = @ + 1,
                      !.window_hash_history =
                          set_first_output_line(@, buffered_line.tracked_line_num - 1,
                                                self.line_num_output + 1)]

\* pop the front bypassed line and write it
U_emit_filtered(self) ==
    [self EXCEPT !.filtered_lines = Tail(@),
                 !.output = Append(@, self.filtered_lines[1]),
                 !.line_num_output = @ + 1]

\* fault variant of U_emit_loop: a buffered bypassed line is written as soon
\* as there is one, without comparing input positions
RECURSIVE U_emit_loop_filtered_first(_, _)
U_emit_loop_filtered_first(self, min_depth) ==
    IF Len(self.filtered_lines) > 0
    THEN U_emit_loop_filtered_first(U_emit_filtered(self), min_depth)
    ELSE IF Len(self.line_buffer) > min_depth
    THEN U_emit_loop_filtered_first(U_emit_tracked(self), min_depth)
    ELSE self

\* the while True loop of _emit_merged_lines
RECURSIVE U_emit_loop(_, _)
U_emit_loop(self, min_depth) ==
    LET line_buffer_len == Len(self.line_buffer)
        filtered_lines_len == Len(self.filtered_lines)
        dedup_can_emit == line_buffer_len > min_depth
        dedup_line_num == IF dedup_can_emit THEN self.line_buffer[1].input_line_num
                          ELSE Infinity
        filtered_line_num == IF filtered_lines_len > 0
                             THEN self.filtered_lines[1].input_line_num ELSE Infinity
        filtered_can_emit ==
            /\ filtered_lines_len > 0
            /\ line_buffer_len > 0 => filtered_line_num < self.line_buffer[1].input_line_num
    IN  IF dedup_can_emit /\ dedup_line_num <= filtered_line_num
        THEN U_emit_loop(U_emit_tracked(self), min_depth)
        ELSE IF filtered_can_emit /\ filtered_line_num < dedup_line_num
        THEN U_emit_loop(U_emit_filtered(self), min_depth)
        ELSE self

_emit_merged_lines(self) == U_emit_loop(self, U_min_required_depth(self))

\* fault variant of U_non_overlapping: the window start is computed from
\* line_num_input, which also counts bypassed lines
U_non_overlapping_all_lines(self, current_window_hash) ==
    LET h == self.window_hash_history
        history_positions == IF current_window_hash \in DOMAIN h.key_to_positions
                             THEN h.key_to_positions[current_window_hash] ELSE <<>>
        current_window_start == self.line_num_input - self.window_size + 1
    IN  SelectSeq(history_positions, LAMBDA pos : pos + self.window_size <= current_window_start)

\* the history positions that pass the overlap filter of Phase 3b
U_non_overlapping(self, current_window_hash) ==
    LET h == self.window_hash_history
        history_positions == IF current_window_hash \in DOMAIN h.key_to_positions
                             THEN h.key_to_positions[current_window_hash] ELSE <<>>
        current_window_start == self.line_num_input_tracked - self.window_size + 1
    IN  SelectSeq(history_positions, LAMBDA pos : pos + self.window_size <= current_window_start)

\* The function create_hash_transform returns, for a command that answers
\* the record <<1>> with several lines (or not within the timeout) and copies
\* every other record: the value returned, or the exception raised.
transform_line(line) ==
    IF line = <<1>> THEN [raised |-> "RuntimeError", value |-> line]
    ELSE [raised |-> "no", value |-> line]

\* UniqSeq.process_line.  raised is "RuntimeError" when hash_transform
\* raises, and "TypeError" when the call ends in that
\* exception: HistorySequence(...) in Phase 3b is given keyword arguments the
\* dataclass does not define, so the first non-overlapping History match ends
\* the call before Phase 4.  sequence_records, sequence_candidates,
\* new_sequence_candidates and potential_uniq_matches are therefore empty in
\* every state that is reached, and Phases 1 and 2 and Phase 3a find nothing.
U_process_line(self, line) ==
    LET num == self.line_num_input + 1
        s0 == [self EXCEPT !.line_num_input = num]
    IN  IF ~should_deduplicate(s0, line)
        THEN [self |-> _emit_merged_lines(
                          [s0 EXCEPT !.filtered_lines =
                              Append(@, [line |-> line, input_line_num |-> num,
                                         tracked_line_num |-> 0])]),
              raised |-> "no"]
        ELSE IF self.hash_transform # "None" /\ transform_line(line).raised # "no"
        THEN [self |-> s0, raised |-> transform_line(line).raised]
        ELSE LET line_for_hashing == IF self.hash_transform # "None"
                                     THEN transform_line(line).value ELSE line
                 s1 == [s0 EXCEPT !.line_num_input_tracked = @ + 1,
                                  !.line_buffer = Append(@,
                                      [line |-> line,
                                       line_hash |-> hash_line(line_for_hashing, s0.skip_chars),
                                       input_line_num |-> num,
                                       tracked_line_num |-> s0.line_num_input_tracked + 1])]
             IN  IF Len(s1.line_buffer) < s1.window_size THEN [self |-> s1, raised |-> "no"]
                 ELSE LET window_line_hashes ==
                              [i \in 1..s1.window_size |->
                                  LastN(s1.line_buffer, s1.window_size)[i].line_hash]
                          current_window_hash == hash_window(s1.window_size, window_line_hashes)
                      IN  IF U_non_overlapping(s1, current_window_hash) # <<>>
                          THEN [self |-> s1, raised |-> "TypeError"]
                          ELSE [self |-> _emit_merged_lines(
                                    [s1 EXCEPT !.window_hash_history =
                                        U_append(@, current_window_hash)]),
                                raised |-> "no"]

\* fault variant of U_flush: the buffered tracked lines are dropped and
\* counted as skipped whatever the mode
RECURSIVE U_flush_skipping(_)
U_flush_skipping(self) ==
    IF self.line_buffer = <<>> /\ self.filtered_lines = <<>> THEN self
    ELSE LET dedup_line_num == IF self.line_buffer # <<>>
                               THEN self.line_buffer[1].input_line_num ELSE Infinity
             filtered_line_num == IF self.filtered_lines # <<>>
                                  THEN self.filtered_lines[1].input_line_num ELSE Infinity
         IN  IF dedup_line_num <= filtered_line_num
             THEN U_flush_skipping([self EXCEPT !.line_buffer = Tail(@),
                                                !.lines_skipped = @ + 1])
             ELSE U_flush_skipping(U_emit_filtered(self))

\* the final while loop of UniqSeq.flush (no candidate exists before it)
RECURSIVE U_flush(_)
U_flush(self) ==
    IF self.line_buffer = <<>> /\ self.filtered_lines = <<>> THEN self
    ELSE LET dedup_line_num == IF self.line_buffer # <<>>
                               THEN self.line_buffer[1].input_line_num ELSE Infinity
             filtered_line_num == IF self.filtered_lines # <<>>
                                  THEN self.filtered_lines[1].input_line_num ELSE Infinity
         IN  IF dedup_line_num <= filtered_line_num
             THEN U_flush(IF self.inverse
                          THEN [self EXCEPT !.line_buffer = Tail(@), !.lines_skipped = @ + 1]
                          ELSE [self EXCEPT !.line_buffer = Tail(@),
                                            !.output = Append(@, self.line_buffer[1]),
                                            !.line_num_output = @ + 1])
             ELSE U_flush(U_emit_filtered(self))

\* ---------------------------------------------------- ActiveMatchManager
\* src/uniqseq/matching.py.  A match object is represented by its identity.
ActiveMatchManager(max_candidates) ==
    [max_candidates |-> max_candidates, _matches |-> {}]

\* fault variant of try_add: the capacity test is missing
try_add_unchecked(self, match) ==
    [self |-> [self EXCEPT !._matches = @ \cup {match}], returned |-> TRUE]

\* try_add: the manager after the call and the value returned
try_add(self, match) ==
    IF self.max_candidates # None /\ Cardinality(self._matches) >= self.max_candidates
    THEN [self |-> self, returned |-> FALSE]
    ELSE [self |-> [self EXCEPT !._matches = @ \cup {match}], returned |-> TRUE]

discard(self, match) == [self EXCEPT !._matches = @ \ {match}]

clear(self) == [self EXCEPT !._matches = {}]

\* ------------------------------------------------------------ the system
\* A run drives one engine: a StreamingDeduplicator (dedup), or a UniqSeq
\* (uniq) together with a second UniqSeq of the same configuration that is
\* fed only the records the filter tracks (uniq_tracked).
VARIABLES
    dedup,         \* the StreamingDeduplicator instance
    input,         \* the lines fed to it so far
    pc,            \* "feeding" until flush has returned, then "flushed"
    uniq,          \* the UniqSeq instance
    uniq_tracked,  \* the UniqSeq instance fed the tracked records only
    uniq_input,    \* the lines fed to uniq so far
    uniq_pc,       \* "feeding", "flushed", or "raised" after an exception
    uniq_tracked_pc,
    uniq_preloaded, \* the preloaded_sequences argument uniq was constructed with
    host,          \* what main has done around uniq: the calls and prints made
                   \* after the read loop, the statistics printed, the exception
                   \* that ended the loop, and the exit code
    input_domain,  \* the records the input of dedup is drawn from, and how many
    dedup_access,  \* for each sequence in dedup.unique_sequences, the number of
                   \* the input record at which it was last accessed
    manager,       \* an ActiveMatchManager driven by direct calls
    manager_call   \* the last call made on manager, the set before it, its result

vars == <<dedup, input, pc, uniq, uniq_tracked, uniq_input, uniq_pc, uniq_tracked_pc,
          uniq_preloaded, host, input_domain, dedup_access, manager, manager_call>>

WindowSizes == 1..MaxWindow
DEFAULT_MAX_CANDIDATES == 100

\* (max_history, max_unique_sequences) of the StreamingDeduplicator runs
DedupConfigs ==
    {[max_history |-> None, max_unique_sequences |-> DEFAULT_MAX_UNIQUE_SEQUENCES],
     [max_history |-> None, max_unique_sequences |-> 1],
     [max_history |-> HistoryCap, max_unique_sequences |-> SeqCap],
     [max_history |-> HistoryCap, max_unique_sequences |-> DEFAULT_MAX_UNIQUE_SEQUENCES]}

\* filter configurations: none, a deny list, an allow list, and a list in
\* which an earlier bypass pattern shadows a later track pattern
NoFilter == <<>>
DenyList == <<[regex |-> {<<1>>}, action |-> "bypass"]>>
AllowList == <<[regex |-> Lines \ {<<1>>}, action |-> "track"]>>
Shadowed == <<[regex |-> {<<2>>}, action |-> "bypass"],
              [regex |-> {<<2>>, <<3>>}, action |-> "track"]>>
FilterConfigs == {NoFilter, DenyList, AllowList, Shadowed}

\* (max_history, filter_patterns, inverse) of the UniqSeq runs
UniqSeqConfigs ==
    {[max_history |-> None, filter_patterns |-> f, inverse |-> FALSE] : f \in FilterConfigs}
    \cup {[max_history |-> HistoryCap, filter_patterns |-> DenyList, inverse |-> FALSE],
          [max_history |-> None, filter_patterns |-> DenyList, inverse |-> TRUE],
          [max_history |-> None, filter_patterns |-> NoFilter, inverse |-> TRUE]}

\* UniqSeq.get_stats (total, emitted, skipped)
get_stats(self) ==
    [total |-> self.line_num_input,
     emitted |-> self.line_num_output,
     skipped |-> self.lines_skipped]

NoStats == [total |-> None, emitted |-> None, skipped |-> None]

\* main before the read loop has ended
Running == [events |-> <<>>, stats |-> NoStats, raised |-> "no", exit_code |-> None]

\* main after the read loop has ended without an exception: flush, then the
\* statistics (quiet is off)
on_end_of_input(self) ==
    LET flushed == U_flush(self) IN
    [uniq |-> flushed,
     host |-> [events |-> <<"flush", "print_stats">>, stats |-> get_stats(flushed),
               raised |-> "no", exit_code |-> 0]]

\* fault variant of on_KeyboardInterrupt: the statistics are printed first
on_KeyboardInterrupt_stats_first(self) ==
    [uniq |-> U_flush(self),
     host |-> [events |-> <<"Interrupted by user", "print_stats", "flush">>,
               stats |-> get_stats(self),
               raised |-> "KeyboardInterrupt", exit_code |-> 1]]

\* main's except KeyboardInterrupt clause (quiet is off)
on_KeyboardInterrupt(self) ==
    LET flushed == U_flush(self) IN
    [uniq |-> flushed,
     host |-> [events |-> <<"Interrupted by user", "flush", "print_stats">>,
               stats |-> get_stats(flushed),
               raised |-> "KeyboardInterrupt", exit_code |-> 1]]

\* main's except Exception clause
on_Exception(self, raised) ==
    [uniq |-> self,
     host |-> [events |-> <<"Error">>, stats |-> NoStats,
               raised |-> raised, exit_code |-> 1]]

\* an exception raised by the constructor, outside main's try statement
Uncaught(raised) ==
    [events |-> <<>>, stats |-> NoStats, raised |-> raised, exit_code |-> 1]

\* preloaded_sequences arguments: none, or one sequence of two records
NoPreload == <<>>
Preloads == {NoPreload, <<[seq_hash |-> "S", lines |-> <<<<1>>, <<2>>>>]>>}

\* the configurations that are also run with a preloaded sequence
PreloadConfigs == {c \in UniqSeqConfigs : c.max_history = None /\ c.filter_patterns = NoFilter}

\* the configuration that is also run with a hash transform command, and,
\* for window size 1, with a save_sequence_callback that raises or with
\* annotate on
TransformConfigs ==
    {c \in UniqSeqConfigs :
        c.max_history = None /\ c.filter_patterns = NoFilter /\ ~c.inverse}

Matches == 1..MaxMatches
NoCall == [op |-> "none", match |-> 0, before |-> {}, returned |-> TRUE]

\* The sequences held in unique_sequences, each named by its two dict keys.
Records(self) ==
    {[start_window_hash |-> self.unique_sequences[i].key,
      full_sequence_hash |-> self.unique_sequences[i].seqs[j].full_sequence_hash] :
        <<i, j>> \in {ij \in (1..Len(self.unique_sequences)) \X (1..MaxLines + 1) :
                         ij[2] <= Len(self.unique_sequences[ij[1]].seqs)}}

\* repeat_count of a held sequence
repeat_count_of(self, r) ==
    LET i == us_index(self.unique_sequences, r.start_window_hash)
        j == seq_index(self.unique_sequences[i].seqs, r.full_sequence_hash)
    IN self.unique_sequences[i].seqs[j].repeat_count

\* The sequences a call accessed: those it inserted, those whose repeat_count
\* it incremented, and those a potential match started or advanced against.
touched(before, after) ==
    {r \in Records(after) :
        \/ r \notin Records(before)
        \/ repeat_count_of(after, r) # repeat_count_of(before, r)
        \/ \E k \in 1..Len(after.potential_uniq_matches) :
               LET c == after.potential_uniq_matches[k].candidate_seq IN
               /\ c.start_window_hash = r.start_window_hash
               /\ c.full_sequence_hash = r.full_sequence_hash}

NoAccess == [r \in {} |-> 0]

\* the last-access times after a call made while reading record number now
accessed(before, after, access, now) ==
    [r \in Records(after) |->
        IF r \in touched(before, after) THEN now ELSE access[r]]

\* inputs of up to MaxLines records over all symbols, and, for the default
\* limits, inputs of up to LongLines records over two symbols
ShortInputs == [lines |-> Lines, max |-> MaxLines]
LongInputs == [lines |-> {<<1>>, <<2>>}, max |-> LongLines]

\* the smallest History the CLI accepts: max_history equal to window_size
TightHistory == [window_size |-> 1, max_history |-> 1]

InitDedup ==
    /\ \/ /\ \E w \in WindowSizes, c \in DedupConfigs :
                  dedup = StreamingDeduplicator(w, c.max_history,
                                                c.max_unique_sequences, 0)
          /\ input_domain = ShortInputs
       \/ /\ \E w \in WindowSizes :
                  dedup = StreamingDeduplicator(w, None,
                                                DEFAULT_MAX_UNIQUE_SEQUENCES, 0)
          /\ input_domain = LongInputs
       \/ /\ dedup = StreamingDeduplicator(TightHistory.window_size,
                                              TightHistory.max_history,
                                              DEFAULT_MAX_UNIQUE_SEQUENCES, 0)
          /\ input_domain = ShortInputs
    /\ input = <<>>
    /\ pc = "feeding"
    /\ dedup_access = NoAccess
    /\ uniq = UniqSeq(1, None, None, NoFilter, FALSE)
    /\ uniq_tracked = UniqSeq(1, None, None, NoFilter, FALSE)
    /\ uniq_input = <<>>
    /\ uniq_pc = "idle"
    /\ uniq_tracked_pc = "idle"
    /\ uniq_preloaded = NoPreload
    /\ host = Running
    /\ manager = ActiveMatchManager(None)
    /\ manager_call = NoCall

InitUniqSeq ==
    /\ dedup = StreamingDeduplicator(1, None, 1, 0)
    /\ input = <<>>
    /\ pc = "idle"
    /\ input_domain = ShortInputs
    /\ dedup_access = NoAccess
    /\ \E w \in WindowSizes, c \in UniqSeqConfigs :
       \E p \in IF c \in PreloadConfigs THEN Preloads ELSE {NoPreload} :
       \E t \in IF c \in TransformConfigs /\ p = NoPreload THEN {"None", "command"}
                ELSE {"None"} :
       \E cb \in IF c \in TransformConfigs /\ p = NoPreload /\ t = "None" /\ w = 1
                 THEN {"None", "raises"} ELSE {"None"} :
       \E an \in IF c \in TransformConfigs /\ p = NoPreload /\ t = "None" /\ w = 1
                    /\ cb = "None"
                 THEN {FALSE, TRUE} ELSE {FALSE} :
           LET r == _initialize_preloaded_sequences(
                        [UniqSeq(w, c.max_history, DEFAULT_MAX_CANDIDATES,
                                 c.filter_patterns, c.inverse)
                            EXCEPT !.hash_transform = t,
                                   !.save_sequence_callback = cb,
                                   !.annotate = an], p)
           IN  /\ uniq = r.self
               /\ uniq_tracked = r.self
               /\ uniq_preloaded = p
               /\ uniq_pc = IF r.raised = "no" THEN "feeding" ELSE "raised"
               /\ uniq_tracked_pc = IF r.raised = "no" THEN "feeding" ELSE "raised"
               /\ host = IF r.raised = "no" THEN Running ELSE Uncaught(r.raised)
    /\ uniq_input = <<>>
    /\ manager = ActiveMatchManager(None)
    /\ manager_call = NoCall

\* a manager on its own, as the unit tests drive it
InitManager ==
    /\ dedup = StreamingDeduplicator(1, None, 1, 0)
    /\ input = <<>>
    /\ pc = "idle"
    /\ input_domain = ShortInputs
    /\ dedup_access = NoAccess
    /\ uniq = UniqSeq(1, None, None, NoFilter, FALSE)
    /\ uniq_tracked = UniqSeq(1, None, None, NoFilter, FALSE)
    /\ uniq_input = <<>>
    /\ uniq_pc = "idle"
    /\ uniq_tracked_pc = "idle"
    /\ uniq_preloaded = NoPreload
    /\ host = Running
    /\ \E mc \in {None, 1, CandCap} : manager = ActiveMatchManager(mc)
    /\ manager_call = [op |-> "__init__", match |-> 0, before |-> {}, returned |-> TRUE]

Init == InitDedup \/ InitUniqSeq \/ InitManager

uniq_vars == <<uniq, uniq_tracked, uniq_input, uniq_pc, uniq_tracked_pc, uniq_preloaded,
               host>>
dedup_vars == <<dedup, input, pc, input_domain, dedup_access>>
manager_vars == <<manager, manager_call>>

ProcessLine ==
    /\ pc = "feeding"
    /\ Len(input) < input_domain.max
    /\ \E line \in input_domain.lines :
           /\ dedup' = process_line(dedup, line)
           /\ input' = Append(input, line)
           /\ dedup_access' = accessed(dedup, dedup', dedup_access, Len(input) + 1)
    /\ pc' = pc
    /\ input_domain' = input_domain
    /\ UNCHANGED uniq_vars
    /\ UNCHANGED manager_vars

Flush ==
    /\ pc = "feeding"
    /\ dedup' = flush(dedup)
    /\ dedup_access' = accessed(dedup, dedup', dedup_access, Len(input) + 1)
    /\ pc' = "flushed"
    /\ input' = input
    /\ input_domain' = input_domain
    /\ UNCHANGED uniq_vars
    /\ UNCHANGED manager_vars

\* One record is read and handed to uniq.process_line; the twin receives it
\* when the filter tracks it.  An exception ends the run on the full input,
\* and with it the input of the twin, which then flushes unless it has
\* raised as well.
UniqProcessLine ==
    /\ uniq_pc = "feeding"
    /\ Len(uniq_input) < MaxLines
    /\ \E line \in Lines :
           LET r == U_process_line(uniq, line)
               t == IF should_deduplicate(uniq, line) /\ uniq_tracked_pc = "feeding"
                    THEN U_process_line(uniq_tracked, line)
                    ELSE [self |-> uniq_tracked, raised |-> "no"]
               ends == r.raised # "no" /\ t.raised = "no" /\ uniq_tracked_pc = "feeding"
           IN  /\ uniq' = r.self
               /\ uniq_pc' = IF r.raised = "no" THEN "feeding" ELSE "raised"
               /\ host' = IF r.raised = "no" THEN host
                          ELSE on_Exception(r.self, r.raised).host
               /\ uniq_tracked' = IF ends THEN U_flush(t.self) ELSE t.self
               /\ uniq_tracked_pc' = IF t.raised # "no" THEN "raised"
                                     ELSE IF ends THEN "flushed"
                                     ELSE uniq_tracked_pc
               /\ uniq_input' = Append(uniq_input, line)
    /\ uniq_preloaded' = uniq_preloaded
    /\ UNCHANGED dedup_vars
    /\ UNCHANGED manager_vars

UniqFlush ==
    /\ uniq_pc = "feeding"
    /\ uniq' = on_end_of_input(uniq).uniq
    /\ host' = on_end_of_input(uniq).host
    /\ uniq_pc' = "flushed"
    /\ uniq_tracked' = IF uniq_tracked_pc = "feeding" THEN U_flush(uniq_tracked)
                       ELSE uniq_tracked
    /\ uniq_tracked_pc' = IF uniq_tracked_pc = "feeding" THEN "flushed" ELSE uniq_tracked_pc
    /\ uniq_input' = uniq_input
    /\ uniq_preloaded' = uniq_preloaded
    /\ UNCHANGED dedup_vars
    /\ UNCHANGED manager_vars

\* SIGINT arrives between two records: main's KeyboardInterrupt clause runs.
UniqInterrupt ==
    /\ uniq_pc = "feeding"
    /\ uniq' = on_KeyboardInterrupt(uniq).uniq
    /\ host' = on_KeyboardInterrupt(uniq).host
    /\ uniq_pc' = "flushed"
    /\ uniq_tracked' = IF uniq_tracked_pc = "feeding" THEN U_flush(uniq_tracked)
                       ELSE uniq_tracked
    /\ uniq_tracked_pc' = IF uniq_tracked_pc = "feeding" THEN "flushed" ELSE uniq_tracked_pc
    /\ uniq_input' = uniq_input
    /\ uniq_preloaded' = uniq_preloaded
    /\ UNCHANGED dedup_vars
    /\ UNCHANGED manager_vars

ManagerTryAdd ==
    /\ manager_call.op # "none"
    /\ \E match \in Matches :
           LET r == try_add(manager, match) IN
           /\ manager' = r.self
           /\ manager_call' = [op |-> "try_add", match |-> match,
                               before |-> manager._matches, returned |-> r.returned]
    /\ UNCHANGED <<dedup_vars, uniq_vars>>

ManagerDiscard ==
    /\ manager_call.op # "none"
    /\ \E match \in Matches :
           /\ manager' = discard(manager, match)
           /\ manager_call' = [op |-> "discard", match |-> match,
                               before |-> manager._matches, returned |-> TRUE]
    /\ UNCHANGED <<dedup_vars, uniq_vars>>

ManagerClear ==
    /\ manager_call.op # "none"
    /\ manager' = clear(manager)
    /\ manager_call' = [op |-> "clear", match |-> 0,
                        before |-> manager._matches, returned |-> TRUE]
    /\ UNCHANGED <<dedup_vars, uniq_vars>>

Next ==
    \/ ProcessLine \/ Flush
    \/ UniqProcessLine \/ UniqFlush \/ UniqInterrupt
    \/ ManagerTryAdd \/ ManagerDiscard \/ ManagerClear

Spec == Init /\ [][Next]_vars

\* ------------------------------------------------------------ properties
\* the input positions whose record was written to the output
EmittedNums == {dedup.output[i].num : i \in 1..Len(dedup.output)}
SkippedNums == (1..Len(input)) \ EmittedNums
UniqEmittedNums == {uniq.output[i].input_line_num : i \in 1..Len(uniq.output)}
UniqTrackedNums == {n \in 1..Len(uniq_input) : should_deduplicate(uniq, uniq_input[n])}
UniqBypassedNums == (1..Len(uniq_input)) \ UniqTrackedNums
NumSequences(self) == SumLens(self.unique_sequences)

\* C1: once every record has been passed to process_line and flush has
\* returned, line_num_input == line_num_output + lines_skipped, the counters
\* count what was read and written, every bypassed record is in the output
\* exactly once, and lines_skipped counts tracked records only.
C1_Conservation ==
    /\ pc = "flushed" =>
           /\ dedup.line_num_input = Len(input)
           /\ dedup.line_num_output = Len(dedup.output)
           /\ dedup.line_num_input = dedup.line_num_output + dedup.lines_skipped
    /\ uniq_pc = "flushed" =>
           /\ uniq.line_num_input = Len(uniq_input)
           /\ uniq.line_num_output = Len(uniq.output)
           /\ uniq.line_num_input = uniq.line_num_output + uniq.lines_skipped
           /\ \A n \in UniqBypassedNums :
                  Cardinality({i \in 1..Len(uniq.output) :
                                   uniq.output[i].input_line_num = n}) = 1
           /\ uniq.lines_skipped = Cardinality(UniqTrackedNums \ UniqEmittedNums)

\* a flushed run that both wrote and skipped records
C1_Witness ==
    /\ pc = "flushed"
    /\ dedup.lines_skipped >= 2
    /\ dedup.line_num_output >= 2

\* C2: every skipped record lies in a run of at least W consecutive input
\* records that equals, record for record, a run starting earlier in the
\* input; an input without a repeated W-window is emitted in full.
C2_SkippedBelongToRepeatedRun ==
    pc = "flushed" =>
        /\ \A n \in SkippedNums :
               \E a \in 1..n, b \in n..Len(input), e \in 1..Len(input) :
                   /\ b - a + 1 >= dedup.window_size
                   /\ e < a
                   /\ \A k \in 0..(b - a) : input[e + k] = input[a + k]
        /\ (\A i, j \in 1..Len(input) :
                i < j /\ j + dedup.window_size - 1 <= Len(input) =>
                    SubSeq(input, i, i + dedup.window_size - 1)
                        # SubSeq(input, j, j + dedup.window_size - 1))
           => dedup.lines_skipped = 0 /\ SkippedNums = {}

\* C3: with unlimited caps, when the input is P ++ B ++ Q ++ B ++ R with B
\* of at least W pairwise distinct records that occur nowhere in P, Q, R,
\* the first B is emitted, the second B is skipped, and skipped == |B|.
C3_SecondOccurrenceSkipped ==
    (/\ pc = "flushed"
     /\ dedup.max_history = None
     /\ dedup.max_unique_sequences = DEFAULT_MAX_UNIQUE_SEQUENCES) =>
        \A p \in 0..Len(input), bl \in 1..Len(input), q \in 0..Len(input) :
            LET first == (p + 1)..(p + bl)
                second == (p + bl + q + 1)..(p + 2 * bl + q)
            IN  (/\ bl >= dedup.window_size
                 /\ p + 2 * bl + q <= Len(input)
                 /\ \A k \in 1..bl : input[p + k] = input[p + bl + q + k]
                 /\ \A i, j \in first : i # j => input[i] # input[j]
                 /\ \A i \in first, j \in (1..Len(input)) \ (first \cup second) :
                        input[i] # input[j])
                => /\ first \subseteq EmittedNums
                   /\ second \cap EmittedNums = {}
                   /\ dedup.lines_skipped = bl

\* C4: the tracked records written to the output are input records, each
\* at most once, in input order.
C4_OrderPreserved ==
    /\ \A i \in 1..Len(dedup.output) :
           /\ dedup.output[i].num \in 1..Len(input)
           /\ dedup.output[i].line = input[dedup.output[i].num]
           /\ \A j \in 1..Len(dedup.output) :
                  i < j => dedup.output[i].num < dedup.output[j].num
    /\ \A i \in 1..Len(uniq.output) :
           uniq.output[i].input_line_num \in UniqTrackedNums =>
               /\ uniq.output[i].line = uniq_input[uniq.output[i].input_line_num]
               /\ \A j \in 1..Len(uniq.output) :
                      (i < j /\ uniq.output[j].input_line_num \in UniqTrackedNums) =>
                          uniq.output[i].input_line_num < uniq.output[j].input_line_num

\* records were written both before and after a skipped run
C4_Witness ==
    /\ pc = "flushed"
    /\ \E n \in SkippedNums : \E a, b \in EmittedNums : a < n /\ n < b

\* C5: the earliest input position holding a given record content is never
\* skipped.
C5_FirstOccurrenceEmitted ==
    pc = "flushed" =>
        \A n \in 1..Len(input) :
            (\A m \in 1..(n - 1) : input[m] # input[n]) => n \in EmittedNums

\* the emitted tracked records of a UniqSeq run, by content and tracked index
TrackedOutput(self) ==
    LET t == SelectSeq(self.output, LAMBDA r : r.tracked_line_num > 0)
    IN  [i \in 1..Len(t) |-> <<t[i].line, t[i].tracked_line_num>>]

\* C7: the tracked records emitted from X are those emitted from X', the
\* input without its bypassed records, in the same order, and as many
\* records are skipped.
C7_BypassSeparation ==
    uniq_pc # "idle" =>
        /\ TrackedOutput(uniq) = TrackedOutput(uniq_tracked)
        /\ uniq.lines_skipped = uniq_tracked.lines_skipped
        /\ uniq_pc = uniq_tracked_pc

\* a flushed run with bypassed records between tracked ones, longer than
\* one window
C7_Witness ==
    /\ uniq_pc = "flushed"
    /\ uniq.window_size >= 2
    /\ Len(TrackedOutput(uniq)) > uniq.window_size
    /\ Cardinality(UniqBypassedNums) >= 2
    /\ \E n \in UniqBypassedNums : \E a, b \in UniqTrackedNums : a < n /\ n < b

\* C8: a History match shares no input record with the window it is created
\* for.  A candidate created at input line c + W - 1 has input_start_line
\* c - 1; a position it still follows started at
\* P = pos - (lines_matched - W), the window of input lines P+1 .. P+W.
C8_NoOverlap ==
    \A i \in 1..Len(dedup.new_sequence_candidates) :
        LET candidate == dedup.new_sequence_candidates[i] IN
        \A pos \in candidate.matching_history_positions :
            LET P == pos - (candidate.lines_matched - dedup.window_size)
            IN  P + dedup.window_size <= candidate.input_start_line

\* a record that occurs nowhere in the input
Fresh == <<0>>

\* C9: flush after X gives the output and the skipped count of flush after
\* X ++ z, z fresh, with the final z removed.
C9_FlushAsDivergence ==
    pc = "feeding" =>
        LET atEnd == flush(dedup)
            diverged == flush(process_line(dedup, Fresh))
        IN  /\ diverged.output =
                   Append(atEnd.output, [line |-> Fresh, num |-> Len(input) + 1])
            /\ diverged.lines_skipped = atEnd.lines_skipped

\* C10: after every process_line call and after flush the library holds at
\* most max_unique_sequences recorded sequences.
C10_BoundedSequences ==
    NumSequences(dedup) <= dedup.max_unique_sequences

C12_EvictsLeastRecentlyAccessed ==
    [][(pc = "feeding" /\ pc' = "feeding") =>
        LET Evicted == Records(dedup) \ Records(dedup')
            Inserted == Records(dedup') \ Records(dedup)
        IN /\ Cardinality(Evicted) <= 1
           /\ Evicted # {} =>
                  /\ Cardinality(Inserted) = 1
                  /\ NumSequences(dedup') = dedup.max_unique_sequences
                  /\ \A e \in Evicted : \A r \in Records(dedup) :
                         dedup_access[e] <= dedup_access[r]
           /\ NumSequences(dedup') <= dedup.max_unique_sequences]_vars

\* the sequence registered under seq_hash is held in sequence_records
InLibrary(self, seq_hash) ==
    \E i \in 1..Len(self.sequence_records) :
        \E j \in 1..Len(self.sequence_records[i].seqs) :
            self.sequence_records[i].seqs[j].full_sequence_hash = seq_hash

\* C13: every preloaded sequence of length at least W is held in the library
\* from construction to the end of the run, whatever was added since.
C13_PreloadedNeverEvicted ==
    uniq_pc # "idle" =>
        \A i \in 1..Len(uniq_preloaded) :
            Len(uniq_preloaded[i].lines) >= uniq.window_size
                => InLibrary(uniq, uniq_preloaded[i].seq_hash)

\* A whole run of a UniqSeq: process_line on each record of lines, then
\* flush; an exception ends the run where it is raised.
RECURSIVE U_run(_, _)
U_run(self, lines) ==
    IF lines = <<>> THEN [self |-> U_flush(self), raised |-> "no"]
    ELSE LET r == U_process_line(self, Head(lines)) IN
         IF r.raised # "no" THEN r
         ELSE U_run(r.self, Tail(lines))

\* input positions of the tracked records in the output of self
TrackedNumsOf(self) ==
    {self.output[i].input_line_num :
        i \in {k \in 1..Len(self.output) : self.output[k].tracked_line_num > 0}}

\* C14: without preloaded sequences, the tracked records emitted by the
\* normal-mode run and those emitted by the inverse-mode run of the same
\* configuration on the same input partition the tracked input.
C14_InverseComplement ==
    (/\ uniq_pc \in {"flushed", "raised"}
     /\ uniq_preloaded = NoPreload
     /\ ~uniq.inverse)
    => LET inverse_run == U_run(UniqSeq(uniq.window_size, uniq.max_history,
                                        uniq.max_candidates, uniq.filter_patterns,
                                        TRUE), uniq_input).self
       IN  /\ TrackedNumsOf(uniq) \cup TrackedNumsOf(inverse_run) = UniqTrackedNums
           /\ TrackedNumsOf(uniq) \cap TrackedNumsOf(inverse_run) = {}

\* A whole run of a StreamingDeduplicator: process_line on each record, flush.
RECURSIVE run(_, _)
run(self, lines) ==
    IF lines = <<>> THEN flush(self)
    ELSE run(process_line(self, Head(lines)), Tail(lines))

\* the records written by self, in order
OutputLines(self) == [i \in 1..Len(self.output) |-> self.output[i].line]

\* some W-record window of Y equals an earlier window of Y that it does not
\* overlap
ResidualDuplication(Y, W) ==
    \E i, j \in 1..Len(Y) :
        /\ i + W <= j
        /\ j + W - 1 <= Len(Y)
        /\ \A k \in 0..W - 1 : Y[i + k] = Y[j + k]

\* C15: when the output Y of a run has no residual duplication, a second run
\* of the same configuration on Y writes Y and skips nothing.
C15_Idempotent ==
    pc = "flushed" =>
        LET Y == OutputLines(dedup)
            again == run(StreamingDeduplicator(dedup.window_size, dedup.max_history,
                                               dedup.max_unique_sequences, 0), Y)
        IN  ~ResidualDuplication(Y, dedup.window_size)
                => /\ OutputLines(again) = Y
                   /\ again.lines_skipped = 0

\* Construction with preloaded sequences followed by a whole run.
U_construct_and_run(self, preloaded_sequences, lines) ==
    LET c == _initialize_preloaded_sequences(self, preloaded_sequences) IN
    IF c.raised # "no" THEN c ELSE U_run(c.self, lines)

\* C16: in normal mode, with a sequence S of at least W records preloaded,
\* the run on the input S writes nothing and skips every record of S.
C16_PreloadAbsorbed ==
    (uniq_pc # "idle" /\ ~uniq.inverse) =>
        \A i \in 1..Len(uniq_preloaded) :
            LET S == uniq_preloaded[i].lines
                r == U_construct_and_run(
                         UniqSeq(uniq.window_size, uniq.max_history, uniq.max_candidates,
                                 uniq.filter_patterns, FALSE),
                         uniq_preloaded, S)
            IN  Len(S) >= uniq.window_size
                    => /\ r.raised = "no"
                       /\ r.self.output = <<>>
                       /\ r.self.lines_skipped = Len(S)

\* C17: in inverse mode, with a sequence S of at least W records preloaded,
\* the run on S (resolved on its last record or by flush) and the run on S
\* followed by a fresh record (resolved by divergence) write no record of S
\* and count the records of S as skipped.
C17_InversePreloadSuppressed ==
    (uniq_pc # "idle" /\ uniq.inverse) =>
        \A i \in 1..Len(uniq_preloaded) :
            LET S == uniq_preloaded[i].lines IN
            Len(S) >= uniq.window_size =>
                \A X \in {S, Append(S, Fresh)} :
                    LET r == U_construct_and_run(
                                 UniqSeq(uniq.window_size, uniq.max_history,
                                         uniq.max_candidates, uniq.filter_patterns, TRUE),
                                 uniq_preloaded, X)
                    IN  /\ r.raised = "no"
                        /\ \A k \in 1..Len(r.self.output) :
                               r.self.output[k].input_line_num > Len(S)
                        /\ r.self.lines_skipped >= Len(S)

\* positions of the input records that equal no earlier input record
FirstOccurrences == {n \in 1..Len(input) : \A m \in 1..n - 1 : input[m] # input[n]}

\* C18: with W = 1 and no limit in effect, the flushed output is the input
\* without the records that equal an earlier record, and lines_skipped is
\* the number of records removed.
C18_PerRecordDedup ==
    (/\ pc = "flushed"
     /\ dedup.window_size = 1
     /\ dedup.max_history = None
     /\ dedup.max_unique_sequences = DEFAULT_MAX_UNIQUE_SEQUENCES)
    => /\ EmittedNums = FirstOccurrences
       /\ Len(dedup.output) = Cardinality(FirstOccurrences)
       /\ dedup.lines_skipped = Len(input) - Cardinality(FirstOccurrences)

\* every record of uniq_input is in the output of uniq once, in input order
UniqAllPassThrough ==
    /\ Len(uniq.output) = Len(uniq_input)
    /\ \A i \in 1..Len(uniq.output) :
           /\ uniq.output[i].input_line_num = i
           /\ uniq.output[i].line = uniq_input[i]
    /\ uniq.lines_skipped = 0

\* after flush on an empty input nothing is written and every counter is zero
EmptyInputEmptyOutput ==
    /\ (pc = "flushed" /\ input = <<>>) =>
           /\ dedup.output = <<>>
           /\ dedup.line_num_input = 0
           /\ dedup.line_num_output = 0
           /\ dedup.lines_skipped = 0
    /\ (uniq_pc = "flushed" /\ uniq_input = <<>>) =>
           /\ uniq.output = <<>>
           /\ uniq.line_num_input = 0
           /\ uniq.line_num_input_tracked = 0
           /\ uniq.line_num_output = 0
           /\ uniq.lines_skipped = 0

\* a StreamingDeduplicator run on fewer than W records writes them all
DedupShortInputPassesThrough ==
    (pc = "flushed" /\ Len(input) < dedup.window_size) =>
        /\ OutputLines(dedup) = input
        /\ \A i \in 1..Len(dedup.output) : dedup.output[i].num = i
        /\ dedup.lines_skipped = 0
        /\ dedup.line_num_output = Len(input)

\* C19 as stated: in every mode, when the input holds fewer than W tracked
\* records, after flush every input record has been written once in input
\* order and skipped == 0; on an empty input nothing is written and every
\* counter is zero.
C19_ShortInputAnyMode ==
    /\ DedupShortInputPassesThrough
    /\ EmptyInputEmptyOutput
    /\ (uniq_pc = "flushed" /\ Cardinality(UniqTrackedNums) < uniq.window_size)
           => UniqAllPassThrough

\* C19, normal mode: when the input holds fewer than W tracked records, after
\* flush every input record has been written once in input order and
\* skipped == 0; on an empty input, in either mode, nothing is written and
\* every counter is zero.
C19_ShortInputPassesThrough ==
    /\ DedupShortInputPassesThrough
    /\ EmptyInputEmptyOutput
    /\ (/\ uniq_pc = "flushed"
        /\ ~uniq.inverse
        /\ Cardinality(UniqTrackedNums) < uniq.window_size)
           => UniqAllPassThrough

\* a flushed normal-mode run on W - 1 tracked records among bypassed ones
C19_Witness ==
    /\ uniq_pc = "flushed"
    /\ ~uniq.inverse
    /\ uniq.window_size = MaxWindow
    /\ Cardinality(UniqTrackedNums) = uniq.window_size - 1
    /\ UniqBypassedNums # {}
    /\ Len(uniq.output) = Len(uniq_input)

\* C20: in both modes and at every point of a run, the records written so
\* far, tracked and bypassed together, are in strictly increasing input
\* position; a bypassed record still buffered follows every record written,
\* and after flush every bypassed record has been written.
C20_OutputInInputOrder ==
    uniq_pc # "idle" =>
        /\ \A i, j \in 1..Len(uniq.output) :
               i < j => uniq.output[i].input_line_num < uniq.output[j].input_line_num
        /\ \A i \in 1..Len(uniq.output), k \in 1..Len(uniq.filtered_lines) :
               uniq.output[i].input_line_num < uniq.filtered_lines[k].input_line_num
        /\ \A i \in 1..Len(uniq.output), k \in 1..Len(uniq.line_buffer) :
               uniq.output[i].input_line_num < uniq.line_buffer[k].input_line_num
        /\ uniq_pc = "flushed" => UniqBypassedNums \subseteq UniqEmittedNums

\* before flush, a bypassed record has been written between two tracked
\* records, and a later bypassed record waits behind a buffered tracked one
C20_Witness ==
    /\ uniq_pc = "feeding"
    /\ \E i, j, k \in 1..Len(uniq.output) :
           /\ i < j /\ j < k
           /\ uniq.output[i].tracked_line_num > 0
           /\ uniq.output[j].tracked_line_num = 0
           /\ uniq.output[k].tracked_line_num > 0
    /\ uniq.filtered_lines # <<>>
    /\ uniq.line_buffer # <<>>

\* the output positions at which input record n has been written
UniqWrittenAt(n) == {i \in 1..Len(uniq.output) : uniq.output[i].input_line_num = n}

\* C21: in either mode, a bypassed record is written at most once and as it
\* was read, is never counted as skipped and never enters the record buffer
\* or the History; when the run has ended it has been written exactly once.
C21_BypassedWrittenOnce ==
    uniq_pc # "idle" =>
        /\ \A n \in UniqBypassedNums :
               /\ Cardinality(UniqWrittenAt(n)) <= 1
               /\ \A i \in UniqWrittenAt(n) :
                      /\ uniq.output[i].line = uniq_input[n]
                      /\ uniq.output[i].tracked_line_num = 0
               /\ \A k \in 1..Len(uniq.line_buffer) : uniq.line_buffer[k].input_line_num # n
               /\ uniq_pc \in {"flushed", "raised"} => Cardinality(UniqWrittenAt(n)) = 1
        /\ uniq.line_num_input_tracked = Cardinality(UniqTrackedNums)
        /\ uniq.window_hash_history.next_position
               <= Max(0, Cardinality(UniqTrackedNums) - uniq.window_size + 1)
        /\ uniq.lines_skipped <= Cardinality(UniqTrackedNums)

\* the classification the filter list prescribes for a record: the action of
\* the matching pattern of least index, and without a match, tracked exactly
\* when the list holds no track pattern
PrescribedTracked(filter_patterns, line) ==
    LET matching == {i \in 1..Len(filter_patterns) : line \in filter_patterns[i].regex}
    IN  IF matching # {}
        THEN filter_patterns[CHOOSE i \in matching : \A k \in matching : i <= k].action
                 = "track"
        ELSE \A i \in 1..Len(filter_patterns) : filter_patterns[i].action # "track"

\* the input positions the engine has classified and taken in: all that were
\* read, but the last one when its hash transform raised
UniqTakenIn ==
    IF host.raised = "RuntimeError" THEN 1..Len(uniq_input) - 1 ELSE 1..Len(uniq_input)

\* C22: the records the engine has taken as tracked (counted, buffered with a
\* tracked index, or written with one) are those the filter list prescribes,
\* and the records it has buffered or written as bypassed are the others.
C22_FirstMatchWins ==
    uniq_pc # "idle" =>
        LET prescribed == {n \in UniqTakenIn :
                              PrescribedTracked(uniq.filter_patterns, uniq_input[n])}
        IN  /\ uniq.line_num_input_tracked = Cardinality(prescribed)
            /\ \A k \in 1..Len(uniq.line_buffer) :
                   uniq.line_buffer[k].input_line_num \in prescribed
            /\ \A k \in 1..Len(uniq.filtered_lines) :
                   uniq.filtered_lines[k].input_line_num \notin prescribed
            /\ \A i \in 1..Len(uniq.output) :
                   uniq.output[i].tracked_line_num > 0
                       <=> uniq.output[i].input_line_num \in prescribed

\* a flushed run under a list whose first pattern bypasses a record that a
\* later track pattern also matches, on an input that holds that record, a
\* record only the track pattern matches and a record no pattern matches
C22_Witness ==
    /\ uniq_pc = "flushed"
    /\ uniq.filter_patterns = Shadowed
    /\ \E a, b, c \in 1..Len(uniq_input) :
           /\ uniq_input[a] = <<1>>
           /\ uniq_input[b] = <<2>>
           /\ uniq_input[c] = <<3>>
    /\ Len(uniq.output) = Len(uniq_input)

C24_FatalErrorFlushes ==
    host.raised = "RuntimeError" =>
        /\ \E i \in 1..Len(host.events) : host.events[i] = "flush"
        /\ uniq.line_buffer = <<>> /\ uniq.filtered_lines = <<>>
        /\ Cardinality(UniqTakenIn) = Len(uniq.output) + uniq.lines_skipped

\* some window of W tracked records of uniq_input repeats an earlier window
\* that it does not overlap (uniq runs without a filter here)
UniqInputRepeats ==
    \E i, j \in 1..Len(uniq_input) :
        /\ i + uniq.window_size <= j
        /\ j + uniq.window_size - 1 <= Len(uniq_input)
        /\ \A k \in 0..uniq.window_size - 1 : uniq_input[i + k] = uniq_input[j + k]

\* C25: in a run whose save_sequence_callback fails, once the input has
\* repeated a window the run has not been ended by an exception, the
\* repeated sequence is held in sequence_records, and the repeat has been
\* skipped and counted when the run has ended.
C25_SaveFailureNotFatal ==
    (uniq.save_sequence_callback = "raises" /\ UniqInputRepeats) =>
        /\ uniq_pc # "raised"
        /\ uniq_pc = "flushed" =>
               /\ uniq.sequence_records # <<>>
               /\ uniq.lines_skipped >= uniq.window_size

\* C26: with annotate on, once the input has repeated a window whose first
\* occurrence had not been written when the repeat was read, the run has not
\* been ended by an exception, nothing but input records has been written,
\* and the repeat has been skipped when the run has ended.
C26_NoAnnotationWithoutOrigin ==
    (/\ uniq.annotate
     /\ \E n \in 2..Len(uniq_input) :
            /\ n <= uniq.window_size + 1
            /\ \E m \in 1..n - 1 : uniq_input[m] = uniq_input[n])
    => /\ uniq_pc # "raised"
       /\ \A i \in 1..Len(uniq.output) :
              uniq.output[i].line = uniq_input[uniq.output[i].input_line_num]
       /\ uniq_pc = "flushed" => uniq.lines_skipped >= uniq.window_size

\* input positions of the records held in the record buffer of dedup
BufferedNums == {dedup.line_buffer[k].num : k \in 1..Len(dedup.line_buffer)}

\* the matched span of an active History match (a new sequence candidate) and
\* of an active library match (a potential match), as input positions: from
\* the first record of the first matched window to the newest record
CandidateSpan(candidate) == (candidate.input_start_line + 1)..Len(input)
MatchSpan(match) == (Len(input) - get_lines_matched(match) + 1)..Len(input)

\* C27: between two calls, every record in the matched span of an active
\* match is still in the record buffer: it has been neither written nor
\* removed.
C27_ActiveSpanBuffered ==
    pc = "feeding" =>
        /\ \A k \in 1..Len(dedup.new_sequence_candidates) :
               CandidateSpan(dedup.new_sequence_candidates[k]) \subseteq BufferedNums
        /\ \A k \in 1..Len(dedup.potential_uniq_matches) :
               MatchSpan(dedup.potential_uniq_matches[k]) \subseteq BufferedNums

\* The candidates of self that are still following History.
FollowingHistory(self) ==
    {self.new_sequence_candidates[k] : k \in
        {j \in 1..Len(self.new_sequence_candidates) :
            self.new_sequence_candidates[j].matching_history_positions # {}}}

\* C28: every record taken while a match is active is compared with the
\* match's next source window. A process_line call that processes a window
\* leaves in the active sets only matches whose source window at the offset
\* just matched is that window (window_hashes[next_window_index - 1], from 0,
\* for a library match; the History entry at each matching position for a
\* History match), and a History match that stays active over a call has
\* moved on by exactly one window in that call.
C28_ActiveMatchesAgree ==
    [][(pc = "feeding" /\ pc' = "feeding") =>
        /\ (Len(dedup.hash_buffer) + 1 >= dedup.window_size) =>
            LET line == input'[Len(input')]
                current_window_hash ==
                    hash_window(dedup.window_size,
                                LastN(Append(dedup.hash_buffer,
                                             hash_line(line, dedup.skip_chars)),
                                      dedup.window_size))
                h == dedup'.window_hash_history
            IN  /\ \A k \in 1..Len(dedup'.potential_uniq_matches) :
                       LET m == dedup'.potential_uniq_matches[k] IN
                       m.candidate_seq.window_hashes[m.next_window_index] = current_window_hash
                /\ \A c \in FollowingHistory(dedup') :
                       \A q \in c.matching_history_positions :
                           /\ c.window_hashes[Len(c.window_hashes)] = current_window_hash
                           /\ \A j \in 0..Len(c.window_hashes) - 1 :
                                  has_key(h, q - j) =>
                                      get_key(h, q - j) = c.window_hashes[Len(c.window_hashes) - j]
        /\ \A c \in FollowingHistory(dedup) :
               \A d \in FollowingHistory(dedup') :
                   d.id = c.id =>
                       /\ Len(d.window_hashes) = Len(c.window_hashes) + 1
                       /\ \A q \in d.matching_history_positions :
                              q - 1 \in c.matching_history_positions
      ]_vars

\* the fingerprint of the window formed by records s .. s + window_size - 1
WindowAt(records, window_size, skip_chars, s) ==
    hash_window(window_size,
                [j \in 1..window_size |-> hash_line(records[s + j - 1], skip_chars)])

\* the tracked records UniqSeq has taken in, in input order
UniqTrackedRecords ==
    LET taken == SubSeq(uniq_input, 1, Cardinality(UniqTakenIn))
        Tracked(line) == PrescribedTracked(uniq.filter_patterns, line)
    IN  SelectSeq(taken, Tracked)

\* C29: every live History position P holds the fingerprint of the window
\* formed by tracked records P+1 .. P+W, in both engines, whether or not
\* records have been skipped from the buffer.
C29_PositionIsWindowStart ==
    /\ pc # "idle" =>
           \A P \in DOMAIN dedup.window_hash_history.position_to_key :
               /\ P + dedup.window_size <= Len(input)
               /\ get_key(dedup.window_hash_history, P)
                      = WindowAt(input, dedup.window_size, dedup.skip_chars, P + 1)
    /\ uniq_pc # "idle" =>
           \A P \in DOMAIN uniq.window_hash_history.position_to_entry :
               /\ P + uniq.window_size <= Len(UniqTrackedRecords)
               /\ uniq.window_hash_history.position_to_entry[P].window_hash
                      = WindowAt(UniqTrackedRecords, uniq.window_size, uniq.skip_chars, P + 1)

\* A History whose forward map is position_to_key: the live positions are
\* the range oldest_position .. next_position - 1, at most maxsize of them,
\* and key_to_positions lists, for each key held, exactly the live positions
\* holding it in ascending order, with no other entry.
Coherent(maxsize, oldest_position, next_position, position_to_key, key_to_positions) ==
    /\ oldest_position <= next_position
    /\ DOMAIN position_to_key = oldest_position..next_position - 1
    /\ maxsize # None => Cardinality(DOMAIN position_to_key) <= maxsize
    /\ DOMAIN key_to_positions = {position_to_key[p] : p \in DOMAIN position_to_key}
    /\ \A key \in DOMAIN key_to_positions :
           LET positions == key_to_positions[key] IN
           /\ positions # <<>>
           /\ {positions[i] : i \in 1..Len(positions)}
                  = {p \in DOMAIN position_to_key : position_to_key[p] = key}
           /\ \A i \in 1..Len(positions) - 1 : positions[i] < positions[i + 1]

\* A step that changes a History is one append: next_position grows by one,
\* the new position is the old next_position, at most the oldest position is
\* evicted, and the positions live before and after hold what they held.
OneAppend(oldest_position, next_position, held, oldest_after, next_after, held_after) ==
    /\ next_after = next_position + 1
    /\ oldest_after \in {oldest_position, oldest_position + 1}
    /\ next_position \notin DOMAIN held
    /\ next_position \in DOMAIN held_after
    /\ \A p \in DOMAIN held \cap DOMAIN held_after : held_after[p] = held[p]

DedupHistoryCoherent ==
    LET h == dedup.window_hash_history IN
    Coherent(h.maxsize, h.oldest_position, h.next_position,
             h.position_to_key, h.key_to_positions)

\* the fingerprints a UniqSeq History holds, without first_output_line
held_keys(h) == [p \in DOMAIN h.position_to_entry |-> h.position_to_entry[p].window_hash]

UniqHistoryCoherent ==
    LET h == uniq.window_hash_history IN
    Coherent(h.maxsize, h.oldest_position, h.next_position, held_keys(h), h.key_to_positions)

HistoryStep ==
    /\ dedup'.window_hash_history # dedup.window_hash_history =>
           OneAppend(dedup.window_hash_history.oldest_position,
                     dedup.window_hash_history.next_position,
                     dedup.window_hash_history.position_to_key,
                     dedup'.window_hash_history.oldest_position,
                     dedup'.window_hash_history.next_position,
                     dedup'.window_hash_history.position_to_key)
    /\ (\/ held_keys(uniq'.window_hash_history) # held_keys(uniq.window_hash_history)
        \/ uniq'.window_hash_history.next_position # uniq.window_hash_history.next_position
        \/ uniq'.window_hash_history.oldest_position # uniq.window_hash_history.oldest_position
        \/ uniq'.window_hash_history.key_to_positions # uniq.window_hash_history.key_to_positions) =>
           OneAppend(uniq.window_hash_history.oldest_position,
                     uniq.window_hash_history.next_position,
                     held_keys(uniq.window_hash_history),
                     uniq'.window_hash_history.oldest_position,
                     uniq'.window_hash_history.next_position,
                     held_keys(uniq'.window_hash_history))

\* C30: both engines' History is coherent in every state, and every step
\* that changes a History is one append to it.
C30_HistoryCoherent ==
    [](DedupHistoryCoherent /\ UniqHistoryCoherent) /\ [][HistoryStep]_vars

\* a bounded History that has evicted and still holds one fingerprint at two
\* live positions
C30_Witness ==
    /\ pc = "feeding"
    /\ dedup.window_hash_history.maxsize # None
    /\ dedup.window_hash_history.oldest_position > 0
    /\ \E key \in DOMAIN dedup.window_hash_history.key_to_positions :
           Len(dedup.window_hash_history.key_to_positions[key]) >= 2

\* the active matches of self: the ids of its library matches, and of its
\* candidates that still follow History
ActiveMatchIds(self) ==
    {self.potential_uniq_matches[k].id : k \in 1..Len(self.potential_uniq_matches)}

ActiveCandidateIds(self) == {c.id : c \in FollowingHistory(self)}

\* the input positions at which the active matches of self started, when n
\* records have been read
ActiveStarts(self, n) ==
    {n - get_lines_matched(self.potential_uniq_matches[k]) + 1 :
        k \in 1..Len(self.potential_uniq_matches)}
    \cup {c.input_start_line + 1 : c \in FollowingHistory(self)}

\* the library sequences a call recorded: inserted, or counted once more
Recorded(before, after) ==
    {r \in Records(after) :
        \/ r \notin Records(before)
        \/ repeat_count_of(after, r) # repeat_count_of(before, r)}

sequence_length_of(self, r) ==
    LET i == us_index(self.unique_sequences, r.start_window_hash)
        j == seq_index(self.unique_sequences[i].seqs, r.full_sequence_hash)
    IN self.unique_sequences[i].seqs[j].sequence_length

\* a process_line call of StreamingDeduplicator before which two or more
\* matches, all started at one position, were active, and after which none
\* of them is
GroupLeaves ==
    /\ pc = "feeding" /\ pc' = "feeding"
    /\ Cardinality(ActiveMatchIds(dedup)) + Cardinality(ActiveCandidateIds(dedup)) >= 2
    /\ Cardinality(ActiveStarts(dedup, Len(input))) = 1
    /\ ActiveMatchIds(dedup) \cap ActiveMatchIds(dedup') = {}
    /\ ActiveCandidateIds(dedup) \cap ActiveCandidateIds(dedup') = {}

\* such a call records exactly one sequence, of the length the group had
\* matched (one more when the call's own window completed a library match)
GroupResolvedOnce ==
    GroupLeaves =>
        LET matched == Len(input) - (CHOOSE s \in ActiveStarts(dedup, Len(input)) : TRUE) + 1
        IN  /\ Cardinality(Recorded(dedup, dedup')) = 1
            /\ \A r \in Recorded(dedup, dedup') :
                   sequence_length_of(dedup', r) \in {matched, matched + 1}

AdvancedMatches(before, after) ==
    {k \in 1..Len(before.potential_uniq_matches) :
        \E j \in 1..Len(after.potential_uniq_matches) :
            /\ after.potential_uniq_matches[j].id = before.potential_uniq_matches[k].id
            /\ after.potential_uniq_matches[j].next_window_index
                   = before.potential_uniq_matches[k].next_window_index + 1}

AdvancedCandidates(before, after) ==
    {c \in FollowingHistory(before) :
        \E d \in FollowingHistory(after) :
            d.id = c.id /\ d.lines_matched = c.lines_matched + 1}

\* a process_line call of StreamingDeduplicator before which the active
\* matches all started at one position, and in which one of them diverged
\* while another went on matching
DivergedBesideLonger ==
    /\ pc = "feeding" /\ pc' = "feeding"
    /\ Cardinality(ActiveStarts(dedup, Len(input))) = 1
    /\ \/ AdvancedMatches(dedup, dedup') # 1..Len(dedup.potential_uniq_matches)
       \/ AdvancedCandidates(dedup, dedup') # FollowingHistory(dedup)
    /\ \/ AdvancedMatches(dedup, dedup') # {}
       \/ AdvancedCandidates(dedup, dedup') # {}

\* such a call skips nothing and records nothing
DivergedNotResolved ==
    DivergedBesideLonger =>
        /\ dedup'.lines_skipped = dedup.lines_skipped
        /\ Recorded(dedup, dedup') = {}

\* C32: a call in which a match diverges while another match started at the
\* same position stays active does not resolve the span: it skips nothing,
\* records nothing, and no record of the span has been written after it.
C32_DivergedDeferred ==
    [][DivergedBesideLonger =>
          /\ DivergedNotResolved
          /\ \A i \in 1..Len(dedup'.output) :
                 \A start \in ActiveStarts(dedup, Len(input)) :
                     dedup'.output[i].num < start]_vars

\* the window fingerprint a process_line call computes from the buffer and
\* the record it is given
WindowProcessed(self, line) ==
    hash_window(self.window_size,
                LastN(Append(self.hash_buffer, hash_line(line, self.skip_chars)),
                      self.window_size))

\* the sequences held in the library of self
LibrarySequences(self) ==
    {self.unique_sequences[ij[1]].seqs[ij[2]] :
        ij \in {x \in (1..Len(self.unique_sequences)) \X (1..MaxLines + 1) :
                   x[2] <= Len(self.unique_sequences[x[1]].seqs)}}

\* self holds an active match against sequence seq that has matched its
\* windows up to number K (from 1)
MatchAt(self, seq, K) ==
    \E k \in 1..Len(self.potential_uniq_matches) :
        /\ self.potential_uniq_matches[k].candidate_seq.start_window_hash = seq.start_window_hash
        /\ self.potential_uniq_matches[k].candidate_seq.full_sequence_hash = seq.full_sequence_hash
        /\ self.potential_uniq_matches[k].next_window_index = K

\* C33: after a process_line call that processed a window, for every
\* library sequence and every offset at which the sequence holds that
\* window, a match against the sequence at that offset is active.
C33_MatchAtAnyOffset ==
    [][(/\ pc = "feeding" /\ pc' = "feeding"
        /\ Len(dedup.hash_buffer) + 1 >= dedup.window_size) =>
          \A seq \in LibrarySequences(dedup') :
              \A K \in 1..Len(seq.window_hashes) :
                  seq.window_hashes[K] = WindowProcessed(dedup, input'[Len(input')])
                      => MatchAt(dedup', seq, K)]_vars

\* no two active library matches stand for the same sequence at the same
\* place in it
NoTwinMatches ==
    \A i, j \in 1..Len(dedup.potential_uniq_matches) :
        (/\ i # j
         /\ dedup.potential_uniq_matches[i].candidate_seq
                = dedup.potential_uniq_matches[j].candidate_seq)
        => dedup.potential_uniq_matches[i].next_window_index
               # dedup.potential_uniq_matches[j].next_window_index

\* C34: the active set holds one match for each (sequence, offset) pair that
\* qualified: after a process_line call that processed a window, every
\* library sequence that starts with that window has its own active match
\* at its first window, and no pair is ever held twice.
C34_OneMatchPerPair ==
    /\ []NoTwinMatches
    /\ [][(/\ pc = "feeding" /\ pc' = "feeding"
           /\ Len(dedup.hash_buffer) + 1 >= dedup.window_size) =>
             \A seq \in LibrarySequences(dedup') :
                 seq.window_hashes[1] = WindowProcessed(dedup, input'[Len(input')])
                     => MatchAt(dedup', seq, 1)]_vars

RECURSIVE feed(_, _)
feed(self, lines) ==
    IF lines = <<>> THEN self ELSE feed(process_line(self, Head(lines)), Tail(lines))

\* the records of lines, each behind a one-character prefix: the same one
\* for all ("constant") or its own for each record ("distinct")
PrefixPatterns == {"constant", "distinct"}
Prefixed(lines, pattern) ==
    [i \in 1..Len(lines) |-> <<IF pattern = "constant" THEN 0 ELSE i>> \o lines[i]]

\* the run of dedup's configuration with skip_chars = 1 on the prefixed
\* input, taken as far as dedup's own run has gone
SkipPrefixRun(pattern) ==
    LET fed == feed(StreamingDeduplicator(dedup.window_size, dedup.max_history,
                                          dedup.max_unique_sequences, 1),
                    Prefixed(input, pattern))
    IN  IF pc = "flushed" THEN flush(fed) ELSE fed

\* C36: at every step, the run with skip_chars = 1 on records that carry a
\* one-character prefix has written, skipped and buffered the same records
\* as the run with skip_chars = 0 on the records without the prefix, and
\* what it has written and buffered are the records with their prefix.
C36_SkipPrefixEquivalent ==
    pc # "idle" =>
        \A pattern \in PrefixPatterns :
            LET with == SkipPrefixRun(pattern)
                original == Prefixed(input, pattern)
            IN  /\ [i \in 1..Len(with.output) |-> with.output[i].num]
                       = [i \in 1..Len(dedup.output) |-> dedup.output[i].num]
                /\ \A i \in 1..Len(with.output) :
                       with.output[i].line = original[with.output[i].num]
                /\ with.lines_skipped = dedup.lines_skipped
                /\ [i \in 1..Len(with.line_buffer) |-> with.line_buffer[i].num]
                       = [i \in 1..Len(dedup.line_buffer) |-> dedup.line_buffer[i].num]
                /\ \A i \in 1..Len(with.line_buffer) :
                       with.line_buffer[i].line = original[with.line_buffer[i].num]

\* a finished run with skip_chars = 1 on records whose prefixes all differ
\* that has written some records and skipped others
C36_Witness ==
    /\ pc = "flushed"
    /\ Len(input) >= 2 * dedup.window_size
    /\ SkipPrefixRun("distinct").lines_skipped >= dedup.window_size
    /\ SkipPrefixRun("distinct").output # <<>>

\* the input positions of the records in a buffer or an output
NumsIn(records, field) == {records[i][field] : i \in 1..Len(records)}

EngineAfter(n) ==
    feed(StreamingDeduplicator(dedup.window_size, dedup.max_history,
                               dedup.max_unique_sequences, 0),
         FirstN(input, n))

\* every window of seq has left History and nothing is being followed
EvictedAndIdle(self, seq) ==
    /\ \A K \in 1..Len(seq.window_hashes) :
           find_all_positions(self.window_hash_history, seq.window_hashes[K]) = <<>>
    /\ self.potential_uniq_matches = <<>>
    /\ self.new_sequence_candidates = <<>>

\* the records p .. p + sequence_length - 1 of the input are seq again
RecursAt(seq, p) ==
    /\ p + seq.sequence_length - 1 <= Len(input)
    /\ \A K \in 1..Len(seq.window_hashes) :
           seq.window_hashes[K] = WindowAt(input, dedup.window_size, dedup.skip_chars, p + K - 1)

\* C38: in a finished run with a bounded History and a library that never
\* reached its cap, every whole recurrence of a sequence that was in the
\* library when the recurrence began has been skipped in full, also when all
\* windows of the sequence had left History by then (the engine following
\* nothing else at that moment).
C38_LibraryOutlivesHistory ==
    (/\ pc = "flushed"
     /\ dedup.max_history # None
     /\ dedup.max_unique_sequences = DEFAULT_MAX_UNIQUE_SEQUENCES) =>
        \A p \in 1..Len(input) :
            \A seq \in LibrarySequences(EngineAfter(p - 1)) :
                (EvictedAndIdle(EngineAfter(p - 1), seq) /\ RecursAt(seq, p)) =>
                    \A n \in p..p + seq.sequence_length - 1 : n \in SkippedNums

\* The window hashes _initialize_preloaded_sequences computes for a preloaded
\* sequence: hash_line is called with the record alone, so skip_chars is 0
\* and hash_transform is not applied.
preloaded_window_hashes(self, lines) ==
    [i \in 1..Len(lines) - self.window_size + 1 |->
        hash_window(self.window_size,
                    [j \in 1..self.window_size |-> hash_line(lines[i + j - 1], 0)])]

\* the window hashes process_line computes when the same records arrive as
\* input (no hash_transform)
streamed_window_hashes(self, lines) ==
    [i \in 1..Len(lines) - self.window_size + 1 |->
        WindowAt(lines, self.window_size, self.skip_chars, i)]

SkipPrefixes == {0, 1}

\* C39: for every skip_prefix K, an engine constructed with a preloaded
\* sequence S of at least W records fingerprints S as it fingerprints the
\* records of S arriving as input, and the run on the input S matches S:
\* nothing is written and every record of S is skipped.
C39_PreloadFingerprintedAsStream ==
    (uniq_pc # "idle" /\ ~uniq.inverse /\ uniq.hash_transform = "None") =>
        \A i \in 1..Len(uniq_preloaded) : \A K \in SkipPrefixes :
            LET S == uniq_preloaded[i].lines
                self == [UniqSeq(uniq.window_size, uniq.max_history, uniq.max_candidates,
                                 uniq.filter_patterns, FALSE) EXCEPT !.skip_chars = K]
                r == U_construct_and_run(self, uniq_preloaded, S)
            IN  Len(S) >= uniq.window_size
                    => /\ preloaded_window_hashes(self, S) = streamed_window_hashes(self, S)
                       /\ r.raised = "no"
                       /\ r.self.lines_skipped = Len(S)
                       /\ r.self.output = <<>>

====
